---- MODULE Spec2Model ----
(***************************************************************************)
(* Model of the gallery component in src/src/App.tsx: a paginated table of *)
(* artworks with a selection that persists across pages and a bulk         *)
(* "select N rows" panel.                                                  *)
(*                                                                         *)
(* An artwork record is identified with its id (records are immutable and  *)
(* the catalog is stable), so the selection map {id -> Artwork} is the set *)
(* of its keys and a page of artworks is a sequence of ids.                *)
(* Every await in the source is a point where other handlers may run, so   *)
(* an async handler is one action up to its first await and one action per *)
(* continuation.  No handler is guarded by a request in progress: several  *)
(* fetchArtworks calls and several handleCustomSelection calls can await   *)
(* at the same time.                                                       *)
(***************************************************************************)
EXTENDS Integers, Sequences, FiniteSets

\* ---------------------------------------------------------------- bounds
\* Page size the component starts with.  The source starts with 12
\* (App.tsx:26); the model checks the same code with a small page.
RowsPerPage == 2

\* Number of records in the remote catalog (pagination.total).
CatalogSize == 3

\* Most axios.get calls awaiting their response at the same time, those of
\* fetchArtworks and those of handleCustomSelection together.
MaxInFlight == 2

\* ---------------------------------------------------------------- server
\* The remote catalog: position p holds the record with id Catalog[p].
\* Ids fall as the position rises, so "lowest id" and "first in page
\* order" are different things.
Catalog == [p \in 1..CatalogSize |-> 100 + CatalogSize + 1 - p]

Ids == {Catalog[p] : p \in 1..CatalogSize}

Min(a, b) == IF a <= b THEN a ELSE b

\* GET /artworks?page=..&limit=.. : response.data.data of a good response.
PageData(page, limit) ==
  LET lo == (page - 1) * limit + 1
      hi == Min(page * limit, CatalogSize)
  IN  IF lo > hi THEN <<>> ELSE [k \in 1..(hi - lo + 1) |-> Catalog[lo + k - 1]]

\* What a request can come back as: a response of the contract shape, a
\* rejected promise (network error), or a body with data but no pagination.
ResponseKinds == {"ok", "error", "noPagination"}

\* ---------------------------------------------------------------- helpers
SeqIds(s) == {s[k] : k \in 1..Len(s)}

\* Array.prototype.slice(0, n) for n >= 0
Slice(s, n) == IF n >= Len(s) THEN s ELSE SubSeq(s, 1, n)

\* Math.ceil(a / b) for a >= 0, b > 0
CeilDiv(a, b) == (a + b - 1) \div b

VARIABLES
  artworks,          \* useState<Artwork[]>([])      the displayed page
  totalRecords,      \* useState(0)
  first,             \* useState(0)                  pager offset
  rows,              \* useState(12)                 page size
  selectedArtworks,  \* useState({})                 keys of the selection map
  numberInput,       \* useState<number|null>(null)  0 stands for null
  panelOpen,         \* visibility of the OverlayPanel behind the ref op
  inflight,          \* fetchArtworks calls awaiting axios.get
  calls,             \* locals of the handleCustomSelection calls in progress
  lastStep           \* the handler step taken last and the toasts it showed

vars == <<artworks, totalRecords, first, rows, selectedArtworks, numberInput,
          panelOpen, inflight, calls, lastStep>>

Null == 0

\* A handleCustomSelection call that is not in progress.  A call in
\* progress holds the values of its closure (numberInput, first, rows), its
\* locals, the page numbers it has requested and the requests it awaits.
BulkIdle == [pc |-> "idle", currentSelection |-> {}, numberInput |-> 0,
             additionalSelectionsNeeded |-> 0, totalPages |-> 0, i |-> 0,
             newSelections |-> <<>>, first |-> 0, rows |-> 0,
             requested |-> <<>>, pending |-> <<>>]

\* The calls that can be in progress at once.
Slots == 1..MaxInFlight

Awaiting == {c \in Slots : calls[c].pc = "awaiting"}

\* The axios.get calls awaiting a response.
Outstanding == Len(inflight) + Cardinality(Awaiting)

Step(kind, toasts) == [kind |-> kind, toasts |-> toasts]

\* State after construction and the mount effect: fetchArtworks(1) is
\* awaiting its response.
Init ==
  /\ artworks = <<>>
  /\ totalRecords = 0
  /\ first = 0
  /\ rows = RowsPerPage
  /\ selectedArtworks = {}
  /\ numberInput = Null
  /\ panelOpen = FALSE
  /\ inflight = <<[page |-> 1, limit |-> RowsPerPage]>>
  /\ calls = [c \in Slots |-> BulkIdle]
  /\ lastStep = Step("mount", {})

\* ---------------------------------------------------------------- fetchArtworks
RemoveAt(s, k) == [j \in 1..(Len(s) - 1) |-> IF j < k THEN s[j] ELSE s[j + 1]]

\* Variant: the catch block resets the table.
ArtworksClearedOnError(kind, old, req) ==
  IF kind \in {"ok", "noPagination"} THEN PageData(req.page, req.limit) ELSE <<>>

\* setArtworks(response.data.data) runs when the body carries data; a
\* rejected request never reaches it.
ArtworksAfterResponse(kind, old, req) ==
  IF kind \in {"ok", "noPagination"} THEN PageData(req.page, req.limit) ELSE old

\* setTotalRecords(response.data.pagination.total) runs only when the
\* read of pagination.total does not throw.
TotalAfterResponse(kind, old) ==
  IF kind = "ok" THEN CatalogSize ELSE old

\* The catch block shows the error toast.
FetchToasts(kind) == IF kind = "ok" THEN {} ELSE {"error"}

FetchResponse(k, kind) ==
  /\ k \in 1..Len(inflight)
  /\ artworks' = ArtworksAfterResponse(kind, artworks, inflight[k])
  /\ totalRecords' = TotalAfterResponse(kind, totalRecords)
  /\ inflight' = RemoveAt(inflight, k)
  /\ lastStep' = Step(IF kind = "ok" THEN "fetchOk"
                      ELSE IF kind = "error" THEN "fetchError"
                      ELSE "fetchMalformed", FetchToasts(kind))
  /\ UNCHANGED <<first, rows, selectedArtworks, numberInput, panelOpen,
                 calls>>

\* ---------------------------------------------------------------- onPageChange
\* The Paginator offers the pages of totalRecords records and reports
\* {first: page * rows, rows, page}.
PageCount == CeilDiv(totalRecords, rows)

\* Variant: the page index is stored as the offset.
PagerFirstIsPage(page, r) == page

\* event.first as the Paginator reports it for page index page.
PagerFirst(page, r) == page * r

OnPageChange(page) ==
  /\ page \in 0..(PageCount - 1)
  /\ Outstanding < MaxInFlight
  /\ first' = PagerFirst(page, rows)
  /\ rows' = rows
  /\ inflight' = Append(inflight, [page |-> page + 1, limit |-> rows])
  /\ lastStep' = Step("pageChange", {})
  /\ UNCHANGED <<artworks, totalRecords, selectedArtworks, numberInput,
                 panelOpen, calls>>

\* ---------------------------------------------------------------- onSelectionChange
\* Variant: the selection becomes event.value, whatever the page.
ReconcileReplace(selection, currentPageIds, value) == value

\* Variant: unchecked records are never deleted.
ReconcileNoDelete(selection, currentPageIds, value) == selection \cup value

\* newSelection: the copy of the selection, minus the keys that are on the
\* current page and not in event.value, plus every record of event.value.
Reconcile(selection, currentPageIds, value) ==
  (selection \ {id \in selection : id \in currentPageIds /\ id \notin value})
    \cup value

\* The table reports the records it holds that are checked: rows of the
\* displayed page and records of the selection it was given (line 150).
TableRecords == SeqIds(artworks) \cup selectedArtworks

OnSelectionChange(value) ==
  /\ value \in SUBSET TableRecords
  /\ selectedArtworks' = Reconcile(selectedArtworks, SeqIds(artworks), value)
  /\ lastStep' = [kind |-> "selectionChange", toasts |-> {},
                  removed |-> Cardinality(selectedArtworks \ selectedArtworks')]
  /\ UNCHANGED <<artworks, totalRecords, first, rows, numberInput, panelOpen,
                 inflight, calls>>

\* ---------------------------------------------------------------- panel
\* toggleExpand: op.current?.toggle(event)
ToggleExpand ==
  /\ panelOpen' = ~panelOpen
  /\ lastStep' = Step("toggle", {})
  /\ UNCHANGED <<artworks, totalRecords, first, rows, selectedArtworks,
                 numberInput, inflight, calls>>

\* handleNumberChange: the InputNumber inside the panel reports a value in
\* min..max = 1..totalRecords, or no value (Null).
HandleNumberChange(value) ==
  /\ panelOpen
  /\ value \in {Null} \cup 1..totalRecords
  /\ value # numberInput
  /\ numberInput' = value
  /\ lastStep' = Step("numberChange", {})
  /\ UNCHANGED <<artworks, totalRecords, first, rows, selectedArtworks,
                 panelOpen, inflight, calls>>

\* ---------------------------------------------------------------- handleCustomSelection
\* Variant: the panel is left as it is.
HideSkipped(open) == open

\* op.current?.hide()
Hide(open) == FALSE

\* Variant: the sort compares the other way round.
KeepHighest(selection, n) ==
  {id \in selection : Cardinality({other \in selection : other > id}) < n}

\* sortedKeys.slice(0, n): the n numerically smallest keys.
KeepLowest(selection, n) ==
  {id \in selection : Cardinality({other \in selection : other < id}) < n}

\* Variant: floor plus one instead of the ceiling.
TotalPagesFloorPlusOne(needed, r) == (needed \div r) + 1

\* Math.ceil(additionalSelectionsNeeded / rows)
TotalPages(needed, r) == CeilDiv(needed, r)

\* Variant: the loop starts at the page after the pager's page.
BulkPageAfter(f, r, i) == (f \div r) + i + 2

\* Variant: the loop index is left out of the page number.
BulkPageSame(f, r, i) == (f \div r) + 1

\* Math.floor(first / rows) + i + 1
BulkPage(f, r, i) == (f \div r) + i + 1

\* Variant: the whole page is taken.
ArtworksToAddAll(pageArtworks, remainingCount) == pageArtworks

\* pageArtworks.slice(0, remainingCount)
ArtworksToAdd(pageArtworks, remainingCount) == Slice(pageArtworks, remainingCount)

\* Variant: the collected records are dropped.
MergeDropped(currentSelection, newSelections) == currentSelection

\* Variant: the write holds the collected records only.
MergeOnlyNew(currentSelection, newSelections) == SeqIds(newSelections)

\* newSelections.forEach: add every collected record not yet a key.
MergeSelections(currentSelection, newSelections) ==
  currentSelection \cup {id \in SeqIds(newSelections) : id \notin currentSelection}

\* Variant: the next page is requested without awaiting this one.
BulkRequestsAhead(f, r, i) ==
  <<[page |-> (f \div r) + i + 1, limit |-> r],
    [page |-> (f \div r) + i + 2, limit |-> r]>>

\* The requests the loop has awaiting a response after issuing page i.
BulkRequests(f, r, i) == <<[page |-> BulkPage(f, r, i), limit |-> r]>>

\* numberInput === null: return
SubmitEmpty ==
  /\ panelOpen
  /\ numberInput = Null
  /\ lastStep' = Step("submitEmpty", {})
  /\ UNCHANGED <<artworks, totalRecords, first, rows, selectedArtworks,
                 numberInput, panelOpen, inflight, calls>>

\* numberInput <= currentSelectionCount: trim, info toast, hide.
SubmitShrink ==
  /\ panelOpen
  /\ numberInput # Null
  /\ numberInput <= Cardinality(selectedArtworks)
  /\ selectedArtworks' = KeepLowest(selectedArtworks, numberInput)
  /\ panelOpen' = Hide(panelOpen)
  /\ lastStep' = [kind |-> "shrink", toasts |-> {"info"},
                  prior |-> selectedArtworks, target |-> numberInput]
  /\ UNCHANGED <<artworks, totalRecords, first, rows, numberInput, inflight,
                 calls>>

\* numberInput > currentSelectionCount: the loop up to its first await.
SubmitExpand ==
  /\ panelOpen
  /\ numberInput # Null
  /\ numberInput > Cardinality(selectedArtworks)
  /\ Outstanding < MaxInFlight
  /\ LET c == CHOOSE free \in Slots \ Awaiting :
                \A other \in Slots \ Awaiting : free <= other
         needed == numberInput - Cardinality(selectedArtworks)
     IN  /\ calls' = [calls EXCEPT ![c] =
                        [pc |-> "awaiting",
                         currentSelection |-> selectedArtworks,
                         numberInput |-> numberInput,
                         additionalSelectionsNeeded |-> needed,
                         totalPages |-> TotalPages(needed, rows),
                         i |-> 0,
                         newSelections |-> <<>>,
                         first |-> first,
                         rows |-> rows,
                         requested |-> <<BulkPage(first, rows, 0)>>,
                         pending |-> BulkRequests(first, rows, 0)]]
         /\ lastStep' = [kind |-> "expandStart", toasts |-> {}, call |-> c]
  /\ UNCHANGED <<artworks, totalRecords, first, rows, selectedArtworks,
                 numberInput, panelOpen, inflight>>

\* After the loop of call c: merge, setSelectedArtworks, success toast, hide.
BulkFinish(c, newSelections, failed) ==
  /\ selectedArtworks' = MergeSelections(calls[c].currentSelection, newSelections)
  /\ panelOpen' = Hide(panelOpen)
  /\ calls' = [calls EXCEPT ![c] = BulkIdle]
  /\ lastStep' = [kind |-> IF failed THEN "expandFailed" ELSE "expandDone",
                  toasts |-> (IF failed THEN {"error"} ELSE {}) \cup {"success"},
                  call |-> c,
                  op |-> [calls[c] EXCEPT !.newSelections = newSelections,
                                          !.pending = Tail(calls[c].pending)]]

\* The continuation of the loop of call c after its axios.get settles.
BulkResponse(c, kind) ==
  /\ c \in Awaiting
  /\ calls[c].pending # <<>>
  /\ LET bulk == calls[c]
         req == Head(bulk.pending)
         rest == Tail(bulk.pending)
     IN  IF kind = "error"
         THEN BulkFinish(c, bulk.newSelections, TRUE)
         ELSE LET pageArtworks == PageData(req.page, req.limit)
                  remainingCount == bulk.additionalSelectionsNeeded
                                      - Len(bulk.newSelections)
                  newSelections == bulk.newSelections
                                     \o ArtworksToAdd(pageArtworks, remainingCount)
              IN  IF \/ Len(newSelections) = bulk.additionalSelectionsNeeded
                     \/ bulk.i + 1 >= bulk.totalPages
                  THEN BulkFinish(c, newSelections, FALSE)
                  ELSE /\ calls' = [calls EXCEPT ![c] = [bulk EXCEPT
                                     !.i = bulk.i + 1,
                                     !.newSelections = newSelections,
                                     !.requested = Append(bulk.requested,
                                        BulkPage(bulk.first, bulk.rows, bulk.i + 1)),
                                     !.pending = rest \o
                                        BulkRequests(bulk.first, bulk.rows,
                                                     bulk.i + 1)]]
                       /\ lastStep' = [kind |-> "expandNext", toasts |-> {},
                                       call |-> c]
                       /\ UNCHANGED <<selectedArtworks, panelOpen>>
  /\ UNCHANGED <<artworks, totalRecords, first, rows, numberInput, inflight>>

\* ---------------------------------------------------------------- specifications
\* Browsing: page loads, navigation with several requests outstanding, and
\* selection changes.
Next ==
  \/ \E k \in 1..MaxInFlight, kind \in ResponseKinds : FetchResponse(k, kind)
  \/ \E page \in 0..CatalogSize : OnPageChange(page)
  \/ \E value \in SUBSET Ids : OnSelectionChange(value)

Spec == Init /\ [][Next]_vars

\* Browsing and the bulk panel: every handler, at any time.
NextBulk ==
  \/ \E k \in 1..MaxInFlight, kind \in ResponseKinds : FetchResponse(k, kind)
  \/ \E page \in 0..CatalogSize : OnPageChange(page)
  \/ \E value \in SUBSET Ids : OnSelectionChange(value)
  \/ ToggleExpand
  \/ \E value \in 0..CatalogSize : HandleNumberChange(value)
  \/ SubmitEmpty
  \/ SubmitShrink
  \/ SubmitExpand
  \/ \E c \in Slots, kind \in ResponseKinds : BulkResponse(c, kind)

SpecBulk == Init /\ [][NextBulk]_vars

\* Expansions, several at a time, among navigations whose page loads
\* succeed: the handlers that set what an expansion reads (first, rows,
\* numberInput, the selection earlier expansions wrote) and the expansions
\* themselves.
NextExpand ==
  \/ \E k \in 1..MaxInFlight : FetchResponse(k, "ok")
  \/ \E page \in 0..CatalogSize : OnPageChange(page)
  \/ ToggleExpand
  \/ \E value \in 0..CatalogSize : HandleNumberChange(value)
  \/ SubmitExpand
  \/ \E c \in Slots, kind \in ResponseKinds : BulkResponse(c, kind)

\* Every request of an expansion is answered or fails in the end.
SpecExpandFair ==
  /\ Init /\ [][NextExpand]_vars
  /\ \A c \in Slots : WF_vars(\E kind \in ResponseKinds : BulkResponse(c, kind))

\* Page loads that all succeed, with navigations in quick succession.
NextLoads ==
  \/ \E k \in 1..MaxInFlight : FetchResponse(k, "ok")
  \/ \E page \in 0..CatalogSize : OnPageChange(page)
  \/ \E value \in SUBSET Ids : OnSelectionChange(value)

SpecLoads == Init /\ [][NextLoads]_vars

\* ---------------------------------------------------------------- properties
SubmitKinds == {"shrink", "expandDone", "expandFailed"}

FetchKinds == {"fetchOk", "fetchError", "fetchMalformed"}

RECURSIVE PagesData(_, _)
\* The records of the pages in pages, in that order, at page size limit.
PagesData(pages, limit) ==
  IF pages = <<>> THEN <<>>
  ELSE PageData(Head(pages), limit) \o PagesData(Tail(pages), limit)

\* C1: the membership of an id in the selection changes only in a
\* selection-change event while the id is on the displayed page or in the
\* event's checked set; navigation and page-fetch responses leave the
\* selection as it is.
C1_CrossPagePersistence ==
  [][ /\ \A id \in Ids :
           ((id \in selectedArtworks) # (id \in selectedArtworks'))
             => \E value \in SUBSET Ids :
                  /\ OnSelectionChange(value)
                  /\ (id \in SeqIds(artworks) \/ id \in value)
      /\ (lastStep'.kind \in FetchKinds \cup {"pageChange"})
            => selectedArtworks' = selectedArtworks ]_vars

\* Back on page 1 after a visit to another page, with a record of another
\* page still selected.
C1_Witness ==
  /\ lastStep.kind = "fetchOk"
  /\ first = 0
  /\ artworks = PageData(1, rows)
  /\ \E id \in selectedArtworks : id \notin SeqIds(artworks)
  /\ \E id \in selectedArtworks : id \in SeqIds(artworks)

\* C2: a selection-change event removes exactly the selected ids that are
\* on the displayed page and not in the checked set, and inserts every
\* checked record; unchecking one record of the page removes that id only.
C2_ReconcileExact ==
  [][ \A value \in SUBSET Ids :
        OnSelectionChange(value) =>
          /\ selectedArtworks \ selectedArtworks'
               = {id \in selectedArtworks :
                    id \in SeqIds(artworks) /\ id \notin value}
          /\ value \subseteq selectedArtworks'
          /\ selectedArtworks' \subseteq selectedArtworks \cup value
          /\ \A id \in selectedArtworks \cap SeqIds(artworks) :
               value = selectedArtworks \ {id}
                 => selectedArtworks' = selectedArtworks \ {id} ]_vars

\* One record was unchecked; another record of the page and a record of
\* another page stay selected.
C2_Witness ==
  /\ lastStep.kind = "selectionChange"
  /\ lastStep.removed = 1
  /\ \E id \in selectedArtworks : id \in SeqIds(artworks)
  /\ \E id \in selectedArtworks : id \notin SeqIds(artworks)

\* C3: a submit with 1 <= target <= selection size leaves exactly target
\* entries, the numerically smallest ids of the prior selection, and issues
\* no fetch.
C3_ShrinkKeepsLowest ==
  /\ [](lastStep.kind = "shrink" =>
          /\ Cardinality(selectedArtworks) = lastStep.target
          /\ selectedArtworks \subseteq lastStep.prior
          /\ \A kept \in selectedArtworks :
               \A dropped \in lastStep.prior \ selectedArtworks : kept < dropped)
  /\ [][ lastStep'.kind = "shrink" =>
           /\ inflight' = inflight
           /\ calls' = calls ]_vars

\* {101, 102, 103} trimmed to 2 is {101, 102}.
C3_Witness ==
  /\ lastStep.kind = "shrink"
  /\ lastStep.prior = {101, 102, 103}
  /\ lastStep.target = 2
  /\ selectedArtworks = {101, 102}

\* C4: an expansion whose fetches all succeed leaves a selection of size
\* min(target, total), whatever the page window and the prior selection.
C4_ExpandReachesTarget ==
  lastStep.kind = "expandDone" =>
    Cardinality(selectedArtworks) = Min(lastStep.op.numberInput, CatalogSize)

\* C5 as claimed: the expansion's first request is for the page after the
\* pager's page, at page size rows.
C5_StartsAfterCurrentPage ==
  lastStep.kind = "expandStart" =>
    calls[lastStep.call].pending
      = <<[page |-> (first \div rows) + 2, limit |-> rows]>>

\* C5 as amended: the expansion's first request is for the pager's own
\* page, floor(first / rows) + 1, at page size rows.
C5_StartsAtCurrentPage ==
  lastStep.kind = "expandStart" =>
    calls[lastStep.call].pending
      = <<[page |-> (first \div rows) + 1, limit |-> rows]>>

\* An expansion submitted from the second page.
C5_Witness ==
  /\ lastStep.kind = "expandStart"
  /\ first = rows
  /\ artworks = PageData(2, rows)

\* C6: when a fetch of an expansion fails, the records collected before it
\* are kept: the selection is the selection at submit plus those records,
\* its size the prior size plus the number of them not selected before,
\* and an error toast is shown.
C6_PartialKept ==
  lastStep.kind = "expandFailed" =>
    /\ selectedArtworks
         = lastStep.op.currentSelection \cup SeqIds(lastStep.op.newSelections)
    /\ Cardinality(selectedArtworks)
         = Cardinality(lastStep.op.currentSelection)
           + Cardinality(SeqIds(lastStep.op.newSelections)
                           \ lastStep.op.currentSelection)
    /\ "error" \in lastStep.toasts

\* The second fetch failed after a full page of new records was collected.
C6_Witness ==
  /\ lastStep.kind = "expandFailed"
  /\ Len(lastStep.op.requested) = 2
  /\ lastStep.op.newSelections # <<>>
  /\ Cardinality(selectedArtworks)
       = Cardinality(lastStep.op.currentSelection) + lastStep.op.rows

\* C7: a page fetch that fails with a network error leaves the displayed
\* records and the total as they were and shows an error toast; the view
\* takes further events after it.
C7_FetchErrorKeepsPage ==
  /\ [][ lastStep'.kind = "fetchError" =>
           /\ artworks' = artworks
           /\ totalRecords' = totalRecords
           /\ "error" \in lastStep'.toasts ]_vars
  /\ [](lastStep.kind = "fetchError" =>
          ENABLED (\E value \in SUBSET Ids : OnSelectionChange(value)))

\* A navigation to page 2 failed: the table still shows page 1.
C7_Witness ==
  /\ lastStep.kind = "fetchError"
  /\ first = rows
  /\ artworks = PageData(1, rows)
  /\ totalRecords = CatalogSize

\* C8: a response without pagination.total overwrites neither the displayed
\* records nor the total.
C8_MalformedFailsClosed ==
  [][ lastStep'.kind = "fetchMalformed" =>
        /\ artworks' = artworks
        /\ totalRecords' = totalRecords ]_vars

\* C9 as claimed: every submit ends with the panel closed, a submit with
\* no value entered included.
C9_EverySubmitCloses ==
  lastStep.kind \in SubmitKinds \cup {"submitEmpty"} => ~panelOpen

\* C9 as amended: a submit with a value entered ends with the panel closed,
\* on the shrink branch and on the expand branch with or without a failed
\* fetch; a submit with no value entered returns at once and leaves the
\* panel open.
C9_SubmitWithValueCloses ==
  /\ lastStep.kind \in SubmitKinds => ~panelOpen
  /\ lastStep.kind = "submitEmpty" => panelOpen

\* An expansion with a failed fetch has closed the panel.
C9_Witness ==
  /\ lastStep.kind = "expandFailed"
  /\ lastStep.op.newSelections # <<>>
  /\ ~panelOpen

\* The pages of a run are consecutive and rising.
Consecutive(pages) ==
  \A k \in 1..(Len(pages) - 1) : pages[k + 1] = pages[k] + 1

\* The records collected from the pages answered so far, in page order.
CollectedInOrder(op, answered) ==
  op.newSelections
    = Slice(PagesData(answered, op.rows), op.additionalSelectionsNeeded)

AllButLast(s) == IF s = <<>> THEN s ELSE SubSeq(s, 1, Len(s) - 1)

\* C10: an expansion has at most one fetch outstanding, requests
\* consecutive rising page numbers, and holds the collected records in the
\* order of those pages.
C10_SequentialInOrder ==
  /\ \A c \in Slots :
       /\ Len(calls[c].pending) <= 1
       /\ calls[c].pc = "awaiting" =>
            /\ calls[c].pending
                 = <<[page |-> calls[c].requested[Len(calls[c].requested)],
                      limit |-> calls[c].rows]>>
            /\ Consecutive(calls[c].requested)
            /\ CollectedInOrder(calls[c], AllButLast(calls[c].requested))
  /\ lastStep.kind = "expandDone" =>
       /\ Consecutive(lastStep.op.requested)
       /\ CollectedInOrder(lastStep.op, lastStep.op.requested)
  /\ lastStep.kind = "expandFailed" =>
       /\ Consecutive(lastStep.op.requested)
       /\ CollectedInOrder(lastStep.op, AllButLast(lastStep.op.requested))

\* The second fetch of an expansion is outstanding and the first page's
\* records are collected.
C10_Witness ==
  \E c \in Slots :
    /\ calls[c].pc = "awaiting"
    /\ Len(calls[c].requested) = 2
    /\ calls[c].newSelections = PageData(calls[c].requested[1], calls[c].rows)
    /\ calls[c].newSelections # <<>>

ExpandKinds == {"expandDone", "expandFailed"}

NoRepeat(pages) ==
  \A j, k \in 1..Len(pages) : j # k => pages[j] # pages[k]

\* C11: after a fetch of an expansion fails the expansion issues no further
\* fetch, and neither an expansion nor a page navigation requests a page
\* number twice: a navigation issues one request, and a failed page fetch
\* is followed by no request.
C11_NoRetry ==
  /\ [](/\ lastStep.kind = "expandFailed" =>
             /\ calls[lastStep.call] = BulkIdle
             /\ lastStep.op.pending = <<>>
             /\ Len(lastStep.op.requested) = lastStep.op.i + 1
        /\ \A c \in Slots : NoRepeat(calls[c].requested)
        /\ lastStep.kind \in ExpandKinds => NoRepeat(lastStep.op.requested))
  /\ [][ /\ lastStep'.kind = "expandFailed" =>
              /\ inflight' = inflight
              /\ \A c \in Slots : calls'[c] \in {calls[c], BulkIdle}
         /\ lastStep'.kind = "pageChange" =>
              /\ inflight' = Append(inflight, [page |-> (first' \div rows') + 1,
                                               limit |-> rows'])
              /\ calls' = calls
         /\ lastStep'.kind \in {"fetchError", "fetchMalformed"} =>
              /\ Len(inflight') = Len(inflight) - 1
              /\ calls' = calls ]_vars

\* The first of two needed fetches failed and no other was issued.
C11_Witness ==
  /\ lastStep.kind = "expandFailed"
  /\ lastStep.op.totalPages = 2
  /\ lastStep.op.requested = <<(lastStep.op.first \div lastStep.op.rows) + 1>>
  /\ \A c \in Slots : calls[c] = BulkIdle

\* C12: first is always a multiple of rows, and totalRecords changes only
\* in the step that handles a page-fetch response.
C12_WindowAndTotal ==
  /\ [](first % rows = 0)
  /\ [][ totalRecords' # totalRecords => lastStep'.kind \in FetchKinds ]_vars

\* An expansion finished on the second page with the total known.
C12_Witness ==
  /\ lastStep.kind \in ExpandKinds
  /\ first = rows
  /\ totalRecords = CatalogSize

\* C13: a selection change made while an expansion is in flight is not
\* lost: when the expansion completes, a record checked during the flight
\* is selected and a record unchecked during the flight is not, unless the
\* expansion collected it.
C13_NoLostUpdate ==
  [][ \A c \in Slots :
        (calls[c].pc = "awaiting" /\ calls'[c].pc = "idle") =>
          /\ (selectedArtworks \ calls[c].currentSelection)
               \subseteq selectedArtworks'
          /\ \A id \in calls[c].currentSelection \ selectedArtworks :
               id \in selectedArtworks'
                 => id \in SeqIds(lastStep'.op.newSelections) ]_vars

\* C14: when no page fetch is outstanding and all have succeeded, the
\* table shows the page of the pager offset.
C14_DisplayedIsPagerPage ==
  inflight = <<>> => artworks = PageData((first \div rows) + 1, rows)

\* C15: the selection an expansion writes holds every record that was
\* selected at the moment of submit.
C15_ExpandNeverRemoves ==
  lastStep.kind \in ExpandKinds =>
    lastStep.op.currentSelection \subseteq selectedArtworks

\* An expansion added records to a selection of two.
C15_Witness ==
  /\ lastStep.kind = "expandDone"
  /\ Cardinality(lastStep.op.currentSelection) = 2
  /\ selectedArtworks # lastStep.op.currentSelection

\* C16: a bulk submit never writes more than target entries: exactly
\* target on the shrink branch, and at most target minus the prior size
\* added on the expand branch.
C16_AtMostTarget ==
  /\ lastStep.kind = "shrink" =>
       Cardinality(selectedArtworks) = lastStep.target
  /\ lastStep.kind \in ExpandKinds =>
       /\ Cardinality(selectedArtworks) <= lastStep.op.numberInput
       /\ Cardinality(selectedArtworks \ lastStep.op.currentSelection)
            <= lastStep.op.numberInput
                 - Cardinality(lastStep.op.currentSelection)

\* An expansion took only the first record of a page of two and reached
\* its target exactly.
C16_Witness ==
  /\ lastStep.kind = "expandDone"
  /\ lastStep.op.currentSelection # {}
  /\ Len(lastStep.op.newSelections)
       < Len(PageData(lastStep.op.requested[1], lastStep.op.rows))
  /\ Cardinality(selectedArtworks) = lastStep.op.numberInput

\* C17: every expansion terminates when its fetches are answered; it
\* issues at most ceil((target - prior size) / rows) fetches and writes the
\* selection only when it completes.
C17_ExpandTerminates ==
  /\ \A c \in Slots : (calls[c].pc = "awaiting") ~> (calls[c].pc = "idle")
  /\ [](\A c \in Slots :
          calls[c].pc = "awaiting" =>
            Len(calls[c].requested)
              <= CeilDiv(calls[c].numberInput
                           - Cardinality(calls[c].currentSelection),
                         calls[c].rows))
  /\ [](lastStep.kind \in ExpandKinds =>
          Len(lastStep.op.requested)
            <= CeilDiv(lastStep.op.numberInput
                         - Cardinality(lastStep.op.currentSelection),
                       lastStep.op.rows))
  /\ [][ lastStep'.kind \in {"expandStart", "expandNext"} =>
           selectedArtworks' = selectedArtworks ]_vars

\* An expansion ended at its page limit on a short and an empty page,
\* short of the records it needed.
C17_Witness ==
  /\ lastStep.kind = "expandDone"
  /\ lastStep.op.totalPages = 2
  /\ Len(lastStep.op.requested) = 2
  /\ Len(lastStep.op.newSelections) < lastStep.op.additionalSelectionsNeeded

\* C18: an expansion shows the success toast only when none of its fetches
\* failed; one with a failed fetch shows the error toast and no success
\* toast.
C18_SuccessOnlyWithoutFailure ==
  /\ lastStep.kind = "expandFailed" =>
       /\ "error" \in lastStep.toasts
       /\ "success" \notin lastStep.toasts
  /\ lastStep.kind = "expandDone" => lastStep.toasts = {"success"}
====
